---- MODULE Spec2Model ----
(***************************************************************************)
(* Verification model of millerhmy/A6111: the mode cell owned by App, the  *)
(* gift-opening sequence of Overlay (clicks, double-clicks, timers,        *)
(* re-renders) and the per-frame morph loops of the instanced ornaments,   *)
(* the foliage points and the photo cards.                                 *)
(*                                                                         *)
(* Numbers.  IEEE doubles are modelled as fixed-point integers: positions  *)
(* in units of 1/PosScale world units, scales in units of 1/ScaleOne, and  *)
(* interpolation factors as fractions over AlphaDen.  Every product is     *)
(* rounded to the nearest unit.  Frame time is counted in thirds of a      *)
(* second, angles in quarter turns.                                        *)
(***************************************************************************)
EXTENDS Integers, Sequences, FiniteSets, TLC

VARIABLES
    mode,        \* App: useState<TreeMode>, the value last passed to setMode
    isOpening,   \* Overlay: useState(false)
    isFading,    \* Overlay: useState(false)
    rendered,    \* what the last committed render closed over: [mode, isOpening]
    dblEnv,      \* closure of the handleModeToggle registered for 'dblclick'
    timers,      \* pending setTimeout callbacks, in creation order: [kind, left]
    opens,       \* history: number of opening sequences started by triggerOpen
    chaosWrites, \* history: number of setMode(CHAOS) calls made by opening sequences
    mounted,     \* the Suspense content is committed: every ref.current is set
    clock,       \* state.clock: Stopped, or elapsedTime modulo one period of the sine table
    data,        \* per synced system: the InstanceData[] of generateInstanceData
    matrices,    \* per synced system and layer: the instanceMatrix records
    ornOps,      \* per synced system: buffer operations of its last frame, in order
    foliage,     \* Foliage useMemo: positions, chaosPositions, textPositions
    currentPositions, \* Foliage: geometry.attributes.position.array
    folOps,      \* Foliage: buffer operations of its last frame, in order
    cards,       \* PolaroidSystem: one record per Polaroid (props, refs, group)
    scenery,     \* TopStar / SnowDrifts / TextRibbon: what their last frame selected
    trail,       \* history: the modes a harness passed to the scene as its mode prop
    textEnv,     \* MathUtils: what the host offers generateTextPoints (document, 2D context, pixels)
    cachedTextPoints, \* MathUtils: the module variable cachedTextPoints
    call,        \* the last call of a MathUtils function: its arguments and its outcome
    scn          \* one population run frame by frame at 60 Hz, in units of 1/FineOne

uiVars == <<mode, isOpening, isFading, rendered, dblEnv, timers, opens, chaosWrites>>

labVars == <<trail, textEnv, cachedTextPoints, call, scn>>

----------------------------------------------------------------------------
(* Bounds *)

\* openings that may be started in one run (each stale double-click starts one)
MaxOpenings == 2

----------------------------------------------------------------------------
(* types.ts: enum TreeMode *)
TreeMode == {"CHAOS", "FORMED", "TEXT", "GIFT"}

(* Overlay.tsx: the three setTimeout delays of triggerOpen, in units of 100 ms *)
FadeDelay == 8
SwitchDelay == 15
ResetDelay == 1

TimerKinds == {"fade", "switch", "reset"}

----------------------------------------------------------------------------
(* React: a commit re-creates every closure from the current state; the     *)
(* effect that registers the 'dblclick' listener has deps [mode], so the    *)
(* listener is replaced only by a commit in which mode differs from the    *)
(* previously rendered one.                                                 *)
Snapshot(m, o) == [mode |-> m, isOpening |-> o]

Commit(m, o) ==
    /\ rendered' = Snapshot(m, o)
    /\ dblEnv' = IF rendered.mode # m THEN Snapshot(m, o) ELSE dblEnv

(* Overlay.tsx triggerOpen, run in a closure whose isOpening is envOpening. *)
(* It returns the new isOpening state and the timers it schedules.          *)
triggerOpenStarts(envOpening) == ~envOpening

\* a trigger whose two timers are set the other way round: the mode is
\* switched after 800 ms and the cover fades after 1500 ms
triggerOpenSwitchFirst(envOpening) ==
    IF envOpening
    THEN /\ UNCHANGED <<isOpening, timers, opens>>
    ELSE /\ isOpening' = TRUE
         /\ timers' = timers \o <<[kind |-> "fade", left |-> SwitchDelay],
                                  [kind |-> "switch", left |-> FadeDelay]>>
         /\ opens' = opens + 1

triggerOpen(envOpening) ==
    IF envOpening
    THEN /\ UNCHANGED <<isOpening, timers, opens>>
    ELSE /\ isOpening' = TRUE
         /\ timers' = timers \o <<[kind |-> "fade", left |-> FadeDelay],
                                  [kind |-> "switch", left |-> SwitchDelay]>>
         /\ opens' = opens + 1

(* Overlay.tsx handleModeToggle: the mode the toggle writes outside GIFT.   *)
NextModeOf(m) ==
    IF m = "CHAOS" THEN "FORMED"
    ELSE IF m = "FORMED" THEN "TEXT"
    ELSE "CHAOS"

(* onClick={triggerOpen} on the cover, which exists only while the rendered *)
(* mode is GIFT.  A click is a discrete event: React re-renders before the  *)
(* next event is dispatched.                                                *)
Click ==
    /\ rendered.mode = "GIFT"
    /\ triggerOpenStarts(rendered.isOpening) => opens < MaxOpenings
    /\ triggerOpen(rendered.isOpening)
    /\ Commit(mode, isOpening')
    /\ UNCHANGED <<mode, isFading, chaosWrites>>

(* window 'dblclick' listener: handleModeToggle of the render in which the  *)
(* effect last ran.                                                         *)
DblClick ==
    IF dblEnv.mode = "GIFT"
    THEN /\ triggerOpenStarts(dblEnv.isOpening) => opens < MaxOpenings
         /\ triggerOpen(dblEnv.isOpening)
         /\ Commit(mode, isOpening')
         /\ UNCHANGED <<mode, isFading, chaosWrites>>
    ELSE /\ mode' = NextModeOf(dblEnv.mode)
         /\ Commit(mode', isOpening)
         /\ UNCHANGED <<isOpening, isFading, timers, opens, chaosWrites>>

(* Timers fire when their delay has elapsed, the earliest created first.    *)
Due == {i \in 1..Len(timers) : timers[i].left = 0}

FirstDue == CHOOSE i \in Due : \A j \in Due : i <= j

Remove(s, i) == SubSeq(s, 1, i - 1) \o SubSeq(s, i + 1, Len(s))

FireTimer ==
    /\ Due # {}
    /\ LET k == timers[FirstDue].kind
           rest == Remove(timers, FirstDue)
       IN  /\ k = "fade" =>
                /\ isFading' = TRUE
                /\ timers' = rest
                /\ UNCHANGED <<mode, isOpening, chaosWrites>>
           /\ k = "switch" =>
                /\ mode' = "CHAOS"
                /\ chaosWrites' = chaosWrites + 1
                /\ timers' = rest \o <<[kind |-> "reset", left |-> ResetDelay]>>
                /\ UNCHANGED <<isOpening, isFading>>
           /\ k = "reset" =>
                /\ isOpening' = FALSE
                /\ isFading' = FALSE
                /\ timers' = rest
                /\ UNCHANGED <<mode, chaosWrites>>
    /\ UNCHANGED <<rendered, dblEnv, opens>>

(* 100 ms pass: possible only while no pending timer is already due.        *)
Advance ==
    /\ timers # <<>>
    /\ Due = {}
    /\ timers' = [i \in 1..Len(timers) |-> [timers[i] EXCEPT !.left = @ - 1]]
    /\ UNCHANGED <<mode, isOpening, isFading, rendered, dblEnv, opens, chaosWrites>>

(* Time passes until the next pending timer is due.                         *)
NextDue == CHOOSE x \in {timers[i].left : i \in 1..Len(timers)} :
               \A j \in 1..Len(timers) : x <= timers[j].left

AdvanceToDue ==
    /\ timers # <<>>
    /\ Due = {}
    /\ timers' = [i \in 1..Len(timers) |-> [timers[i] EXCEPT !.left = @ - NextDue]]
    /\ UNCHANGED <<mode, isOpening, isFading, rendered, dblEnv, opens, chaosWrites>>

(* The re-render React schedules after a state update made by a timer.      *)
Render ==
    /\ rendered # Snapshot(mode, isOpening)
    /\ Commit(mode, isOpening)
    /\ UNCHANGED <<mode, isOpening, isFading, timers, opens, chaosWrites>>

----------------------------------------------------------------------------
(* Fixed-point arithmetic *)

Abs(x) == IF x < 0 THEN -x ELSE x

Min(a, b) == IF a < b THEN a ELSE b

Max(a, b) == IF a > b THEN a ELSE b

\* n / d rounded to the nearest integer, halves away from zero (d > 0)
RoundDiv(n, d) == IF n >= 0 THEN (2 * n + d) \div (2 * d) ELSE -((2 * (-n) + d) \div (2 * d))

\* interpolation factors are fractions over AlphaDen; frame deltas are in
\* thirds of a second and speeds in tenths, so delta * speed * 1.5 = 3*d*s/60
AlphaDen == 3 * 20

\* emitted instance scales are in hundredths
ScaleOne == 10 * 10

\* the scale of a photo card's group is in tenths
CardOne == 2 * 5

\* positions are in half world units
PosScale == 1 + 1

\* the positive deltaTime samples the frame clock supplies: 1/3 s and 1 s
Deltas == {1, 3}

\* THREE.Clock before its first getDelta(), which starts it and returns 0
Stopped == 0 - 1

\* Math.sin over a quarter-turn grid, in units of 1/SinOne
SinTable == <<0, 1, 0, -1>>

SinOne == Max(SinTable[2], 1)

AngleSteps == Len(SinTable)

Sin(a) == SinTable[(a % AngleSteps) + 1]

(* three.js Vector3.lerp: this.x += (v.x - this.x) * alpha, per component   *)
LerpTo(x, y, num) == x + RoundDiv((y - x) * num, AlphaDen)

Vector3Lerp(v, w, num) == [k \in 1..3 |-> LerpTo(v[k], w[k], num)]

(* THREE.MathUtils.lerp(x, y, t) = (1 - t) * x + t * y                      *)
MathUtilsLerp(x, y, num) == RoundDiv((AlphaDen - num) * x + num * y, AlphaDen)

(* THREE.MathUtils.clamp                                                    *)
Clamp(v, lo, hi) == Max(lo, Min(hi, v))

----------------------------------------------------------------------------
(* Bounds of the engine model *)

\* entities per population (the program uses 120, 30, 60, 200, 65000, 12)
Count == 2

\* outcomes of the unseeded Math.random() stream that are distinguished
NumSeeds == 1

\* frames stop being taken once a photo card is farther than this from the origin
MaxCoord == 12

----------------------------------------------------------------------------
(* Ornaments.tsx: the synced systems mounted by OrnamentsSystem.            *)
(* scaleMultiplier is in tenths, refs is the number of synced layers.       *)
Systems == {"gift", "car", "lights"}

SystemType(sys) == IF sys = "gift" THEN "heavy" ELSE IF sys = "car" THEN "upright" ELSE "light"

SystemRefs(sys) == IF sys = "gift" THEN 2 ELSE IF sys = "car" THEN 3 ELSE 1

ScaleMultiplier(sys) == IF sys = "gift" THEN 8 ELSE IF sys = "car" THEN 12 ELSE 1

IsUpright(sys) == sys = "car"

(* MathUtils.ts generateInstanceData: lerp speed by class, in tenths        *)
SpeedOf(type) ==
    IF type = "heavy" \/ type = "upright" THEN 8
    ELSE IF type = "light" THEN 30
    ELSE IF type = "floating" THEN 12
    ELSE 20

Undefined == <<>>

(* MathUtils.ts generateInstanceData: one InstanceData per index.  The      *)
(* morph loop treats the three targets as opaque vectors; the outcome s of  *)
(* the random stream selects vectors inside the generator's ranges.         *)
InstanceData(type, i, s) ==
    [chaosPos  |-> <<2 * i - 3, 4 + s, i - 10>>,
     treePos   |-> <<i - 1, 2 * i, -10>>,
     textPos   |-> <<2 * i - 5 + s, 5 - i, -9 - i>>,
     rotation  |-> IF type = "upright" THEN <<0, (i + s) % AngleSteps, 0>>
                   ELSE <<i % 2, (i + s) % 2, s % 2>>,
     scale     |-> 50 + 20 * ((i + s) % 3),
     speed     |-> SpeedOf(type),
     spinSpeed |-> IF type = "upright" THEN <<0, 1, 0>>
                   ELSE IF type = "heavy" THEN <<1, s % 2, 1>>
                   ELSE <<1, 1, 0>>,
     currentPos |-> Undefined]

generateInstanceData(count, type, s) == [i \in 1..count |-> InstanceData(type, i, s)]

(* THREE.InstancedMesh: the instance matrix of a fresh mesh is all identity *)
Identity == [position |-> <<0, 0, 0>>, rotation |-> <<0, 0, 0>>, scale |-> ScaleOne]

----------------------------------------------------------------------------
(* Ornaments.tsx useSyncedAnimation: the useFrame callback *)

\* a loop that re-reads the shared mode cell for every entity after the first
ModeSeenByLive(i, m) == IF i = 1 THEN m ELSE mode

\* the mode the loop body reads for entity i: the closure constant `mode`
ModeSeenBy(i, m) == m

\* a selection that already assembles the tree behind the closed cover
SelectTargetClosedFormed(item, m) ==
    IF m = "TEXT" THEN item.textPos
    ELSE IF m = "FORMED" \/ m = "GIFT" THEN item.treePos
    ELSE item.chaosPos

\* lines 80-82
SelectTarget(item, m) ==
    IF m = "TEXT" THEN item.textPos
    ELSE IF m = "FORMED" THEN item.treePos
    ELSE item.chaosPos

\* line 92
OrnAlpha(d, speed) == Min(3 * d * speed, AlphaDen)

\* lines 84-86
SeedCurrentPos(item) == IF item.currentPos = Undefined THEN item.chaosPos ELSE item.currentPos

\* a loop body that wears the speed of an entity down as it moves
MoveItemTiring(item, m, d) ==
    [item EXCEPT !.currentPos =
                     Vector3Lerp(SeedCurrentPos(item), SelectTarget(item, m), OrnAlpha(d, item.speed)),
                 !.speed = Max(1, @ - 1)]

\* a loop body that lerps the stored target array in place as well
MoveItemIntoTarget(item, m, d) ==
    LET moved == Vector3Lerp(SeedCurrentPos(item), SelectTarget(item, m), OrnAlpha(d, item.speed))
    IN  IF m = "FORMED" THEN [item EXCEPT !.currentPos = moved, !.treePos = moved]
        ELSE [item EXCEPT !.currentPos = moved]

\* lines 84-93
MoveItem(item, m, d) ==
    [item EXCEPT !.currentPos =
        Vector3Lerp(SeedCurrentPos(item), SelectTarget(item, m), OrnAlpha(d, item.speed))]

\* lines 99-112, angles in quarter turns
DisplayRotation(item, m, t, upright) ==
    IF upright /\ m = "FORMED"
    THEN <<item.rotation[1], (item.rotation[2] + t * item.spinSpeed[2]) % AngleSteps, item.rotation[3]>>
    ELSE [k \in 1..3 |-> (item.rotation[k] + t * item.spinSpeed[k]) % AngleSteps]

\* line 115: 1 + sin(time * 2 + i) * 0.05, in hundredths
Pulse(m, t, i) ==
    IF m = "FORMED" \/ m = "TEXT"
    THEN ScaleOne + RoundDiv(Sin(t * 2 + i) * 5 * ScaleOne, 100 * SinOne)
    ELSE ScaleOne

\* line 120
EmittedScale(item, sys, m, t, i) ==
    RoundDiv(item.scale * ScaleMultiplier(sys) * Pulse(m, t, i), 10 * ScaleOne)

\* lines 97-122: tempObject after updateMatrix
TempMatrix(item, sys, m, t, i) ==
    [position |-> item.currentPos,
     rotation |-> DisplayRotation(item, m, t, IsUpright(sys)),
     scale    |-> EmittedScale(item, sys, m, t, i)]

\* lines 125-127: setMatrixAt on every mounted layer, in refs order
RECURSIVE SetOps(_, _, _, _)
SetOps(sys, i, m, layer) ==
    IF layer > SystemRefs(sys) THEN <<>>
    ELSE <<[op |-> "setMatrixAt", layer |-> layer, i |-> i, mode |-> m]>>
         \o SetOps(sys, i, m, layer + 1)

\* a loop that writes no record for an entity while the mode hides the scene
RECURSIVE LoopOpsSkipHidden(_, _, _)
LoopOpsSkipHidden(sys, i, m) ==
    IF i > Len(data[sys]) THEN <<>>
    ELSE (IF m = "GIFT" /\ i > 1 THEN <<>> ELSE SetOps(sys, i, ModeSeenBy(i, m), 1))
         \o LoopOpsSkipHidden(sys, i + 1, m)

\* lines 75-128: the entity loop; index i of the source is i - 1 here
RECURSIVE LoopOps(_, _, _)
LoopOps(sys, i, m) ==
    IF i > Len(data[sys]) THEN <<>>
    ELSE SetOps(sys, i, ModeSeenBy(i, m), 1) \o LoopOps(sys, i + 1, m)

\* lines 130-132
RECURSIVE MarkOps(_, _)
MarkOps(sys, layer) ==
    IF layer > SystemRefs(sys) THEN <<>>
    ELSE <<[op |-> "needsUpdate", layer |-> layer]>> \o MarkOps(sys, layer + 1)

\* a callback that raises the upload flags before it enters the loop
FrameOpsMarkFirst(sys, m) == MarkOps(sys, 1) \o LoopOps(sys, 1, m)

\* lines 70-133: the writes of one callback, in program order
FrameOps(sys, m) == LoopOps(sys, 1, m) \o MarkOps(sys, 1)

useSyncedAnimation(m, d, t) ==
    IF ~mounted
    THEN UNCHANGED <<data, matrices, ornOps>>
    ELSE /\ data' = [sys \in Systems |->
                       [i \in 1..Len(data[sys]) |-> MoveItem(data[sys][i], ModeSeenBy(i, m), d)]]
         /\ matrices' = [sys \in Systems |->
                           [layer \in 1..SystemRefs(sys) |->
                              [i \in 1..Len(data[sys]) |->
                                 TempMatrix(data'[sys][i], sys, ModeSeenBy(i, m), t, i - 1)]]]
         /\ ornOps' = [sys \in Systems |-> FrameOps(sys, m)]

----------------------------------------------------------------------------
(* Foliage.tsx *)

\* lines 111-152: the three target arrays, one vector per point
FoliageTargets(count, s) ==
    [positions      |-> [i \in 1..count |-> <<10 - i, 2 * i, 1>>],
     chaosPositions |-> [i \in 1..count |-> <<9 - i, 3 + s, 2 + i>>],
     textPositions  |-> [i \in 1..count |-> <<8, 2 + i + s, 0>>]]

\* line 171
FoliageLerpFactor(d) == Clamp(30 * d, 0, AlphaDen)

\* lines 177-190
FoliageTarget(i, m) ==
    IF m = "FORMED" THEN foliage.positions[i]
    ELSE IF m = "TEXT" THEN foliage.textPositions[i]
    ELSE foliage.chaosPositions[i]

\* lines 173-197
RECURSIVE FoliageOps(_, _)
FoliageOps(i, m) ==
    IF i > Len(currentPositions) THEN <<[op |-> "needsUpdate"]>>
    ELSE <<[op |-> "write", i |-> i, mode |-> ModeSeenBy(i, m)]>> \o FoliageOps(i + 1, m)

FoliageFrame(m, d) ==
    IF ~mounted
    THEN UNCHANGED <<currentPositions, folOps>>
    ELSE /\ currentPositions' =
               [i \in 1..Len(currentPositions) |->
                  [k \in 1..3 |-> MathUtilsLerp(currentPositions[i][k],
                                                FoliageTarget(i, ModeSeenBy(i, m))[k],
                                                FoliageLerpFactor(d))]]
         /\ folOps' = FoliageOps(1, m)

----------------------------------------------------------------------------
(* PolaroidSystem.tsx *)

\* lines 136-192 and 37-38: the props and float parameters of one card
PolaroidProps(i, s) ==
    [chaosPos    |-> <<2 * i - 3, 6 + s, 3 - i>>,
     treePos     |-> <<i + 1, 3 + i, 1 - s>>,
     floatSpeed  |-> 1,
     floatOffset |-> (i + s) % AngleSteps]

\* lines 103-107: the group is created at chaosPos with unit scale
NewCard(i, s) ==
    [props |-> PolaroidProps(i, s), position |-> PolaroidProps(i, s).chaosPos, scale |-> CardOne]

\* lines 50-57
\* a card that also takes its place on the tree while the message is shown
CardTargetFormedOrText(card, m) ==
    IF m = "FORMED" \/ m = "TEXT" THEN card.props.treePos ELSE card.props.chaosPos

CardTarget(card, m) == IF m = "FORMED" THEN card.props.treePos ELSE card.props.chaosPos

\* line 61: sin(t * floatSpeed + floatOffset) * 0.1
FloatY(card, t) ==
    RoundDiv(Sin(t * card.props.floatSpeed + card.props.floatOffset) * PosScale, 10 * SinOne)

\* lines 59-62
CardTargetPos(card, m, t) ==
    [CardTarget(card, m) EXCEPT ![2] = @ + FloatY(card, t)]

\* line 66
PolaroidLerpFactor(d) == 40 * d

\* lines 90-93
TargetScale(m) == IF m = "CHAOS" \/ m = "FORMED" THEN CardOne ELSE 0

\* a scale that is set to its target within one frame
ScaleLerpFactorSnap == AlphaDen

\* line 99: lerp(..., 0.1)
ScaleLerpFactor == 6

\* a callback whose target creeps one unit sideways with every mode it is handed
PolaroidUseFrameDrifting(card, m, d, t) ==
    [card EXCEPT !.position = Vector3Lerp(card.position,
                                          [CardTargetPos(card, m, t) EXCEPT ![1] = @ + Len(trail)],
                                          PolaroidLerpFactor(d)),
                 !.scale = LerpTo(card.scale, TargetScale(m), ScaleLerpFactor)]

\* lines 40-100, for a card the pointer is not over (hovered = false); the
\* orientation the callback slerps is not part of the state
PolaroidUseFrame(card, m, d, t) ==
    [card EXCEPT !.position = Vector3Lerp(card.position, CardTargetPos(card, m, t), PolaroidLerpFactor(d)),
                 !.scale = LerpTo(card.scale, TargetScale(m), ScaleLerpFactor)]

PolaroidFrame(m, d, t) ==
    IF ~mounted
    THEN UNCHANGED cards
    ELSE cards' = [c \in 1..Len(cards) |-> PolaroidUseFrame(cards[c], m, d, t)]

InRange(card) == \A k \in 1..3 : Abs(card.position[k]) <= MaxCoord

----------------------------------------------------------------------------
(* TopStar.tsx, SnowSystem.tsx, TextRibbon.tsx: the mode-dependent choice   *)
(* each useFrame makes.  The scalars they interpolate belong to the         *)
(* rendering shell and are not part of the state.                           *)
SceneryFrame(m) ==
    IF ~mounted
    THEN UNCHANGED scenery
    ELSE scenery' = [starScale    |-> IF m = "TEXT" THEN "zero" ELSE "pulse",
                     starTarget   |-> IF m = "FORMED" THEN "targetY" ELSE IF m = "TEXT" THEN "textY" ELSE "chaosY",
                     driftTarget  |-> IF m = "FORMED" THEN 1 ELSE 0,
                     ribbonTarget |-> IF m = "TEXT" THEN 1 ELSE 0]

----------------------------------------------------------------------------
(* One tick of the host's frame loop: the clock advances by d and every     *)
(* useFrame callback runs once, each with the mode of the last commit.      *)
ElapsedAfter(d) == IF clock = Stopped THEN 0 ELSE (clock + d) % AngleSteps

FrameBody(d) ==
    /\ (d = 0) <=> (clock = Stopped)
    /\ clock' = ElapsedAfter(d)
    /\ useSyncedAnimation(rendered.mode, d, clock')
    /\ FoliageFrame(rendered.mode, d)
    /\ PolaroidFrame(rendered.mode, d, clock')
    /\ SceneryFrame(rendered.mode)
    /\ \A c \in 1..Len(cards) : InRange(cards'[c])
    /\ UNCHANGED <<mounted, foliage, labVars>>

\* a tick whose callbacks write the mode they rendered with back to the cell
FrameAtWritingMode(d) ==
    /\ FrameBody(d)
    /\ mode' = rendered.mode
    /\ UNCHANGED <<isOpening, isFading, rendered, dblEnv, timers, opens, chaosWrites>>

FrameAt(d) == FrameBody(d) /\ UNCHANGED uiVars

\* the first tick starts the clock and reports a delta of 0
FirstFrame == FrameAt(0)

LaterFrame == \E d \in Deltas : FrameAt(d)

Frame == FirstFrame \/ LaterFrame

(* The Suspense boundary of Experience resolves and its content is mounted. *)
Mount ==
    /\ ~mounted
    /\ mounted' = TRUE
    /\ UNCHANGED <<uiVars, clock, data, matrices, ornOps, foliage, currentPositions, folOps, cards, scenery>>
    /\ UNCHANGED labVars

----------------------------------------------------------------------------
engineVars == <<mounted, clock, data, matrices, ornOps, foliage, currentPositions, folOps, cards, scenery>>

vars == <<uiVars, engineVars, labVars>>


InitUI ==
    /\ mode = "GIFT"
    /\ isOpening = FALSE
    /\ isFading = FALSE
    /\ rendered = Snapshot("GIFT", FALSE)
    /\ dblEnv = Snapshot("GIFT", FALSE)
    /\ timers = <<>>
    /\ opens = 0
    /\ chaosWrites = 0

InitEngine ==
    /\ mounted = FALSE
    /\ clock = Stopped
    /\ \E s \in 0..(NumSeeds - 1) :
         /\ data = [sys \in Systems |-> generateInstanceData(Count, SystemType(sys), s)]
         /\ foliage = FoliageTargets(Count, s)
         /\ currentPositions = FoliageTargets(Count, s).chaosPositions
         /\ cards = [c \in 1..Count |-> NewCard(c, s)]
    /\ matrices = [sys \in Systems |-> [layer \in 1..SystemRefs(sys) |-> [i \in 1..Count |-> Identity]]]
    /\ ornOps = [sys \in Systems |-> <<>>]
    /\ folOps = <<>>
    /\ scenery = [starScale |-> "pulse", starTarget |-> "chaosY", driftTarget |-> 0, ribbonTarget |-> 0]

\* no harness, an empty cache, no call made, no scenario set up
Null == <<"null">>

\* no population under test
NoScenario == [sys |-> "none", n |-> 0, items |-> <<>>, out |-> <<>>]

InitLab ==
    /\ trail = <<>>
    /\ textEnv = [document |-> TRUE, context |-> TRUE, raster |-> 1]
    /\ cachedTextPoints = Null
    /\ call = [fn |-> "none"]
    /\ scn = NoScenario

Init == InitUI /\ InitEngine /\ InitLab

(* The overlay alone, under every interleaving of its inputs and timers.    *)
NextUI == (Click \/ DblClick \/ FireTimer \/ Advance \/ Render) /\ UNCHANGED <<engineVars, labVars>>

SpecUI == Init /\ [][NextUI]_vars

(* The scene behind an overlay whose cover is opened by a click and whose   *)
(* mode is then cycled by double-clicks.                                    *)
Toggle == dblEnv.mode # "GIFT" /\ DblClick

NextOverlay ==
    (Click \/ Toggle \/ FireTimer \/ AdvanceToDue \/ Render) /\ UNCHANGED <<engineVars, labVars>>

Next == NextOverlay \/ Frame \/ Mount

Spec == Init /\ [][Next]_vars

----------------------------------------------------------------------------
(* Properties *)

AllDeltas == Deltas \cup {0}

\* x lies in the box spanned by a and b: between them on every axis
OnSegment(a, x, b) == \A k \in 1..3 : Min(a[k], b[k]) <= x[k] /\ x[k] <= Max(a[k], b[k])

\* the tolerance of "at the target": half a world unit
Epsilon == PosScale \div 2

Close(a, b) == \A k \in 1..3 : Abs(a[k] - b[k]) <= Epsilon

\* every entity of every population is within Epsilon of its target for mode m
Near(m) ==
    /\ \A sys \in Systems : \A i \in 1..Len(data[sys]) :
          Close(SeedCurrentPos(data[sys][i]), SelectTarget(data[sys][i], m))
    /\ \A i \in 1..Len(currentPositions) : Close(currentPositions[i], FoliageTarget(i, m))
    /\ \A c \in 1..Len(cards) : Close(cards[c].position, CardTarget(cards[c], m))

(* C1: for every deltaTime >= 0 and every population (instanced ornaments,  *)
(* foliage points, photo cards) the interpolation factor of a frame is      *)
(* min(deltaTime * speed * rate, 1), a value in [0, 1], so the position     *)
(* after the frame lies between the position before it and the target and   *)
(* never beyond the target.                                                 *)
C1_FactorInUnitInterval ==
    [][\A d \in AllDeltas : (mounted /\ FrameAt(d)) =>
          /\ \A sys \in Systems : \A i \in 1..Len(data[sys]) :
                /\ OrnAlpha(d, data[sys][i].speed) \in 0..AlphaDen
                /\ OnSegment(SeedCurrentPos(data[sys][i]), data'[sys][i].currentPos,
                             SelectTarget(data[sys][i], rendered.mode))
          /\ FoliageLerpFactor(d) \in 0..AlphaDen
          /\ \A i \in 1..Len(currentPositions) :
                OnSegment(currentPositions[i], currentPositions'[i], FoliageTarget(i, rendered.mode))
          /\ PolaroidLerpFactor(d) \in 0..AlphaDen
          /\ \A c \in 1..Len(cards) :
                OnSegment(cards[c].position, cards'[c].position,
                          CardTargetPos(cards[c], rendered.mode, clock'))]_vars

(* The scene is mounted, the frame loop keeps ticking, pending timers fire  *)
(* and scheduled renders are committed.                                     *)
TimersRun == (FireTimer \/ AdvanceToDue \/ Render) /\ UNCHANGED <<engineVars, labVars>>

FairSpec == Spec /\ WF_vars(Frame) /\ WF_vars(Mount) /\ WF_vars(TimersRun)

(* C2: if the mode is held at one value and frames keep being ticked with   *)
(* one fixed positive deltaTime, every entity is eventually within Epsilon  *)
(* of its target for that mode and stays there.                             *)
C2_ConvergesUnderHeldMode ==
    \A m \in TreeMode : \A d \in Deltas :
        (/\ <>[](rendered.mode = m /\ mode = m /\ mounted)
         /\ []<><<FrameAt(d)>>_vars
         /\ <>[][Frame => FrameAt(d)]_vars)
        => <>[]Near(m)

(* C3: whatever the interleaving of clicks on the cover, double-clicks and  *)
(* timer callbacks, the opening sequence writes CHAOS to the mode at most   *)
(* once: the isOpening guard lets the Closed -> Scattered write happen      *)
(* exactly once per opening.                                                *)
C3_OpeningWritesModeOnce == chaosWrites <= 1

\* the documented cycle
Cycle == {<<"GIFT", "CHAOS">>, <<"CHAOS", "FORMED">>, <<"FORMED", "TEXT">>, <<"TEXT", "CHAOS">>}

(* C4: every change of the mode is one of GIFT -> CHAOS, CHAOS -> FORMED,   *)
(* FORMED -> TEXT, TEXT -> CHAOS; in particular never FORMED -> CHAOS, and  *)
(* GIFT is never entered again.                                             *)
C4_ModeFollowsCycle == [][mode' # mode => <<mode, mode'>> \in Cycle]_vars

\* the records of one callback's log that write entity data
Writes(ops) == {k \in 1..Len(ops) : ops[k].op # "needsUpdate"}

Marks(ops) == {k \in 1..Len(ops) : ops[k].op = "needsUpdate"}

(* C5: within one frame every entity of a population is processed with the  *)
(* same mode value: all records a callback wrote in its last run carry one  *)
(* mode, whether or not a mode change was triggered around that frame.      *)
C5_OneModePerFrame ==
    /\ \A sys \in Systems : \A j, k \in Writes(ornOps[sys]) :
          ornOps[sys][j].mode = ornOps[sys][k].mode
    /\ \A j, k \in Writes(folOps) : folOps[j].mode = folOps[k].mode

\* a frame ran between a timer's mode write and the render that commits it
C5_Witness ==
    /\ mode # rendered.mode
    /\ \A sys \in Systems : Cardinality(Writes(ornOps[sys])) > 1
    /\ Cardinality(Writes(folOps)) > 1
    /\ folOps[1].mode = rendered.mode

(* C6: a frame tick of the per-frame systems (ornaments, foliage, photo     *)
(* cards, star, snow, ribbon) leaves the mode unchanged; the mode changes   *)
(* only in the overlay's handlers: a double-click or the opening timer.     *)
C6_FrameLeavesMode ==
    [][mode' # mode => (~Frame /\ (DblClick \/ FireTimer))]_vars

\* the star, snow and ribbon callbacks have run in the assembled tree
C6_Witness ==
    /\ mode = "FORMED"
    /\ scenery.starTarget = "targetY"
    /\ scenery.driftTarget = 1
    /\ clock # Stopped

\* a scale that a frame drives to zero: it has reached zero or it shrank
DrivenToZero(old, new) == new = 0 \/ new < old

(* C7 as stated: while the mode is GIFT a frame tick changes no             *)
(* currentPosition, and the scale emitted for every entity is driven to     *)
(* zero.                                                                    *)
C7_ClosedFreezesAndHides ==
    [][(mounted /\ rendered.mode = "GIFT" /\ Frame) =>
          /\ \A sys \in Systems : \A i \in 1..Len(data[sys]) :
                data'[sys][i].currentPos = SeedCurrentPos(data[sys][i])
          /\ currentPositions' = currentPositions
          /\ \A c \in 1..Len(cards) : cards'[c].position = cards[c].position
          /\ \A sys \in Systems : \A layer \in 1..SystemRefs(sys) : \A i \in 1..Len(data[sys]) :
                DrivenToZero(matrices[sys][layer][i].scale, matrices'[sys][layer][i].scale)
          /\ \A c \in 1..Len(cards) :
                cards'[c].scale = LerpTo(cards[c].scale, 0, ScaleLerpFactor)]_vars

(* C7 amended: while the mode is GIFT a frame tick uses the Scattered       *)
(* target of every entity (for a photo card, plus its float bob), so the    *)
(* ornaments and foliage points, which rest there, are not moved; only the  *)
(* photo cards are hidden, their scale being interpolated toward zero by    *)
(* 0.1 per frame; an ornament is emitted at baseScale * scaleMultiplier,    *)
(* which is not zero.                                                       *)
C7_ClosedTargetsScattered ==
    [][\A d \in AllDeltas : (mounted /\ rendered.mode = "GIFT" /\ FrameAt(d)) =>
          /\ \A sys \in Systems : \A i \in 1..Len(data[sys]) :
                /\ data'[sys][i].currentPos = data[sys][i].chaosPos
                /\ \A layer \in 1..SystemRefs(sys) :
                      /\ matrices'[sys][layer][i].position = data[sys][i].chaosPos
                      /\ matrices'[sys][layer][i].scale =
                            RoundDiv(data[sys][i].scale * ScaleMultiplier(sys), 10)
                      /\ matrices'[sys][layer][i].scale > 0
          /\ currentPositions' = foliage.chaosPositions
          /\ \A c \in 1..Len(cards) :
                /\ cards'[c].position =
                      Vector3Lerp(cards[c].position,
                                  [cards[c].props.chaosPos EXCEPT ![2] = @ + FloatY(cards[c], clock')],
                                  PolaroidLerpFactor(d))
                /\ cards'[c].scale = LerpTo(cards[c].scale, 0, ScaleLerpFactor)
                /\ cards'[c].scale <= cards[c].scale]_vars

\* frames with a positive delta have run behind the closed cover
C7_Witness ==
    /\ rendered.mode = "GIFT"
    /\ mounted
    /\ clock > 0
    /\ \A c \in 1..Len(cards) : cards[c].scale < CardOne
    /\ \A sys \in Systems : matrices[sys][1][1].position = data[sys][1].chaosPos

\* no callback has interpolated anything yet
NoFrameYet == folOps = <<>>

(* C8: before its first interpolation step the currentPosition of every     *)
(* entity equals its Scattered target, hence the first position a frame     *)
(* emits lies between the Scattered target and the target of the mode that  *)
(* is active in that frame.                                                 *)
C8_FirstStepFromScattered ==
    [][/\ NoFrameYet =>
            /\ \A sys \in Systems : \A i \in 1..Len(data[sys]) :
                  SeedCurrentPos(data[sys][i]) = data[sys][i].chaosPos
            /\ currentPositions = foliage.chaosPositions
            /\ \A c \in 1..Len(cards) : cards[c].position = cards[c].props.chaosPos
       /\ (NoFrameYet /\ mounted /\ Frame) =>
            /\ \A sys \in Systems : \A i \in 1..Len(data[sys]) :
                  OnSegment(data[sys][i].chaosPos, data'[sys][i].currentPos,
                            SelectTarget(data[sys][i], rendered.mode))
            /\ \A i \in 1..Len(currentPositions) :
                  OnSegment(foliage.chaosPositions[i], currentPositions'[i],
                            FoliageTarget(i, rendered.mode))
            /\ \A c \in 1..Len(cards) :
                  OnSegment(cards[c].props.chaosPos, cards'[c].position,
                            CardTargetPos(cards[c], rendered.mode, clock'))]_vars

\* the setMatrixAt records of one layer in a callback's log
LayerWrites(sys, layer) ==
    {k \in 1..Len(ornOps[sys]) : ornOps[sys][k].op = "setMatrixAt" /\ ornOps[sys][k].layer = layer}

(* C9: the number of transform records a frame writes and the number of     *)
(* entities are always the count given at construction: no entity is added  *)
(* or removed, and every buffer keeps its size.                             *)
C9_FixedEntityCount ==
    /\ \A sys \in Systems :
          /\ Len(data[sys]) = Count
          /\ \A layer \in 1..SystemRefs(sys) :
                /\ Len(matrices[sys][layer]) = Count
                /\ ornOps[sys] # <<>> =>
                      /\ Cardinality(LayerWrites(sys, layer)) = Count
                      /\ {ornOps[sys][k].i : k \in LayerWrites(sys, layer)} = 1..Count
    /\ Len(currentPositions) = Count
    /\ folOps # <<>> => {folOps[k].i : k \in Writes(folOps)} = 1..Count
    /\ Len(cards) = Count

\* a frame has written its records while the cover is still closed
C9_Witness ==
    /\ rendered.mode = "GIFT"
    /\ \A sys \in Systems : ornOps[sys] # <<>>
    /\ folOps # <<>>

(* C10: in every frame in which a buffer is updated it is marked as needing *)
(* upload exactly once, and only after the records of all entities have     *)
(* been written into it.                                                    *)
C10_MarkedOnceAfterWrites ==
    /\ \A sys \in Systems : ornOps[sys] # <<>> =>
          \A layer \in 1..SystemRefs(sys) :
             /\ Cardinality({k \in Marks(ornOps[sys]) : ornOps[sys][k].layer = layer}) = 1
             /\ \A k \in Marks(ornOps[sys]) : \A j \in Writes(ornOps[sys]) : j < k
    /\ folOps # <<>> =>
          /\ Cardinality(Marks(folOps)) = 1
          /\ \A k \in Marks(folOps) : \A j \in Writes(folOps) : j < k

\* a frame has updated and marked every buffer of the glyph formation
C10_Witness ==
    /\ rendered.mode = "TEXT"
    /\ \A sys \in Systems : Marks(ornOps[sys]) # {} /\ ornOps[sys][1].mode = "TEXT"
    /\ Marks(folOps) # {}

----------------------------------------------------------------------------
(* The scene driven by a harness instead of the overlay: the harness passes *)
(* a mode of its choice as the mode prop, and the scene re-renders with it. *)

\* mode props a harness passes in one run
MaxTrail == 5

\* App.tsx line 22 and Experience.tsx lines 122-129: the prop reaches every system
ForceMode(m) ==
    /\ mode' = m
    /\ rendered' = Snapshot(m, isOpening)
    /\ trail' = Append(trail, m)
    /\ UNCHANGED <<isOpening, isFading, dblEnv, timers, opens, chaosWrites>>
    /\ UNCHANGED <<engineVars, textEnv, cachedTextPoints, call, scn>>

\* the harness picks a mode M, then alternates between GIFT and M
Harness ==
    /\ Len(trail) < MaxTrail
    /\ \E m \in TreeMode :
          /\ m # mode
          /\ trail # <<>> => (IF mode = "GIFT" THEN m = trail[1] ELSE m = "GIFT")
          /\ ForceMode(m)

NextEngine == Harness \/ Frame \/ Mount

SpecEngine == Init /\ [][NextEngine]_vars

\* a frame of any delta at any clock reading would leave every entity where it is
Steady(m) ==
    \A d \in Deltas :
       /\ \A sys \in Systems : \A i \in 1..Len(data[sys]) :
             MoveItem(data[sys][i], m, d).currentPos = data[sys][i].currentPos
       /\ \A i \in 1..Len(currentPositions) : \A k \in 1..3 :
             MathUtilsLerp(currentPositions[i][k], FoliageTarget(i, m)[k], FoliageLerpFactor(d))
                = currentPositions[i][k]
       /\ \A c \in 1..Len(cards) : \A t \in 0..(AngleSteps - 1) :
             PolaroidUseFrame(cards[c], m, d, t) = cards[c]

\* the largest distance from its target at which a card scale no longer moves
ScaleResolution == CHOOSE r \in 0..CardOne :
                      /\ LerpTo(r, 0, ScaleLerpFactor) = r
                      /\ \A q \in (r + 1)..CardOne : LerpTo(q, 0, ScaleLerpFactor) # q

\* the steady state of mode m: every entity at its target, every card shown or hidden
SettledAt(m) ==
    /\ Near(m)
    /\ \A c \in 1..Len(cards) :
          Abs(cards[c].scale - (IF m = "CHAOS" \/ m = "FORMED" THEN CardOne ELSE 0)) <= ScaleResolution
    /\ \A sys \in Systems : (ornOps[sys] # <<>> /\ ornOps[sys][1].mode = m) =>
          \A layer \in 1..SystemRefs(sys) : \A i \in 1..Len(data[sys]) :
             /\ Close(matrices[sys][layer][i].position, SelectTarget(data[sys][i], m))
             /\ \E t \in 0..(AngleSteps - 1) :
                   matrices[sys][layer][i].scale = EmittedScale(data[sys][i], sys, m, t, i - 1)

(* C11: switching from a mode M to GIFT and back to M, once or repeatedly,  *)
(* and then holding M until nothing moves any more ends in the same steady  *)
(* state: every position at its target for M, every scale at its value for  *)
(* M, whatever the number of switches: repeated toggles leave no drift.     *)
C11_TogglesLeaveNoDrift ==
    (mounted /\ trail # <<>> /\ mode # "GIFT" /\ Steady(mode)) => SettledAt(mode)

\* M = FORMED has been closed and reopened twice and the scene has settled
C11_Witness ==
    /\ trail = <<"FORMED", "GIFT", "FORMED", "GIFT", "FORMED">>
    /\ mounted
    /\ Steady("FORMED")
    /\ \A sys \in Systems : ornOps[sys] # <<>> /\ ornOps[sys][1].mode = "FORMED"
    /\ \A c \in 1..Len(cards) : cards[c].scale < CardOne

\* the modes in which a photo card is not meant to be visible
HiddenModes == {"TEXT", "GIFT"}

(* C12 as stated: a photo card in TEXT or GIFT stays in its population and  *)
(* its scale is interpolated toward 0 with the factor that the same frame   *)
(* applies to its position; a positive scale never becomes 0 in one frame.  *)
C12_HiddenScaleUsesPositionFactor ==
    [][\A d \in AllDeltas : (mounted /\ rendered.mode \in HiddenModes /\ FrameAt(d)) =>
          /\ Len(cards') = Len(cards)
          /\ \A c \in 1..Len(cards) :
                /\ cards'[c].scale = LerpTo(cards[c].scale, 0, PolaroidLerpFactor(d))
                /\ cards[c].scale > 0 => cards'[c].scale > 0]_vars

(* C12 amended: a photo card in TEXT or GIFT stays in its population; its   *)
(* scale is interpolated toward 0 by the constant factor 0.1 per frame,     *)
(* whatever the deltaTime, while its position is interpolated by the factor *)
(* deltaTime * 2; a positive scale never becomes 0 in one frame.            *)
C12_HiddenScaleUsesConstantFactor ==
    [][\A d \in AllDeltas : (mounted /\ rendered.mode \in HiddenModes /\ FrameAt(d)) =>
          /\ Len(cards') = Len(cards)
          /\ \A c \in 1..Len(cards) :
                /\ cards'[c].scale = cards[c].scale - RoundDiv(cards[c].scale, CardOne)
                /\ cards[c].scale > 0 => cards'[c].scale > 0
                /\ cards'[c].position =
                      Vector3Lerp(cards[c].position,
                                  CardTargetPos(cards[c], rendered.mode, clock'), 2 * d * (AlphaDen \div 3))]_vars

\* a card is part-way hidden behind the glyph formation
C12_Witness ==
    /\ rendered.mode = "TEXT"
    /\ mounted
    /\ clock > 0
    /\ \E c \in 1..Len(cards) : cards[c].scale > 0 /\ cards[c].scale < CardOne
    /\ Len(cards) = Count

----------------------------------------------------------------------------
(* MathUtils.ts, the generators.  A population of `count` entities is       *)
(* generated in units of 1 / (GeoOne * count) world units, so that          *)
(* i / count, the envelope of the pile and the outcomes of Math.random()    *)
(* below are all exact.                                                     *)
GeoOne == 2560

\* Math.random() returns k / RndDen for a k of RndOutcomes: 0, 1/4, 1/2, 15/16, 3/4
RndDen == 16

RndOutcomes == <<0, 4, 8, 15, 12>>

\* streams of Math.random() outcomes that are distinguished
NumStreams == 5

\* the outcome of the Math.random() call at call site `site` for entity i in stream s
Rand(s, i, site) == RndOutcomes[((s * (1 + (site % 2)) + 3 * i + 2 * site) % Len(RndOutcomes)) + 1]

\* Math.cos and Math.sin in fifths, for the twelve directions with rational coordinates
DirTable == <<<<5, 0>>, <<4, 3>>, <<3, 4>>, <<0, 5>>, <<-3, 4>>, <<-4, 3>>,
              <<-5, 0>>, <<-4, -3>>, <<-3, -4>>, <<0, -5>>, <<3, -4>>, <<4, -3>>>>

DirOne == DirTable[1][1]

Cos(a) == DirTable[(a % Len(DirTable)) + 1][1]

SinOf(a) == DirTable[(a % Len(DirTable)) + 1][2]

\* an angle of random * 2 * PI as a direction: quarter turns for random = k / 4
FullTurn(k) == (k * Len(DirTable)) \div RndDen

\* sqrt(x * x + z * z) of a point in one of the directions of DirTable
Radius(x, z) ==
    IF z = 0 THEN Abs(x)
    ELSE IF x = 0 THEN Abs(z)
    ELSE IF 3 * Abs(x) = 4 * Abs(z) THEN (5 * Abs(x)) \div 4
    ELSE (5 * Abs(x)) \div 3

\* MathUtils.ts lines 139-140, in tenths
treeHeight == 140

treeBase == 55

\* a cone formula whose radius does not shrink with the height
getConePointWide(height, baseRadius, i, total, jitter) ==
    LET theta == i * 5 + jitter
        y == (i * height * GeoOne) \div 10
        currentRadius == (baseRadius * total * GeoOne) \div 10
    IN  <<(currentRadius * Cos(theta)) \div DirOne, y, (currentRadius * SinOf(theta)) \div DirOne>>

\* lines 19-41: height and baseRadius in tenths; theta = i * 2.5 + random * randomness
\* advances five directions per index and by at most one direction of jitter
getConePoint(height, baseRadius, i, total, jitter) ==
    LET theta == i * 5 + jitter
        y == (i * height * GeoOne) \div 10
        currentRadius == (baseRadius * (total - i) * GeoOne) \div 10
    IN  <<(currentRadius * Cos(theta)) \div DirOne, y, (currentRadius * SinOf(theta)) \div DirOne>>

\* random * randomness, in directions: below or above half a direction
Jitter(k) == IF 2 * k >= RndDen THEN 1 ELSE 0

\* a pile whose height ignores the envelope
PilePointTall(count, s, i) ==
    LET maxR == ((treeBase + 5) * GeoOne * count) \div 10
        r == (Rand(s, i, 2) * maxR) \div RndDen
        angle == FullTurn(Rand(s, i, 3))
        y == (Rand(s, i, 4) * ((35 * GeoOne * count) \div 10)) \div RndDen + (GeoOne * count) \div 10
    IN  <<(Cos(angle) * r) \div DirOne, y, (SinOf(angle) * r) \div DirOne>>

\* lines 166-181: the pile branch of the heavy class; Math.sqrt(Math.random()) is
\* k / RndDen, the root of the outcome k * k / (RndDen * RndDen)
PilePoint(count, s, i) ==
    LET maxR == ((treeBase + 5) * GeoOne * count) \div 10
        r == (Rand(s, i, 2) * maxR) \div RndDen
        angle == FullTurn(Rand(s, i, 3))
        heightEnvelope == (((35 * GeoOne * count) \div 10) * ((maxR - r) \div (maxR \div RndDen))) \div RndDen
        y == (Rand(s, i, 4) * Max((5 * GeoOne * count) \div 10, heightEnvelope)) \div RndDen
                + (GeoOne * count) \div 10
    IN  <<(Cos(angle) * r) \div DirOne, y, (SinOf(angle) * r) \div DirOne>>

\* line 166: Math.random() < 0.85
InPile(type, s, i) == type = "heavy" /\ 100 * Rand(s, i, 1) < 85 * RndDen

\* a heavy class whose entities outside the pile keep their own index
TreeBeforeOwnIndex(type, count, s, i) ==
    IF type = "heavy" /\ InPile(type, s, i)
    THEN PilePoint(count, s, i)
    ELSE getConePoint(treeHeight, treeBase, i, count, Jitter(Rand(s, i, 0)))

\* lines 144 and 166-187: the Assembled target before the upright adjustment
TreeBefore(type, count, s, i) ==
    IF type = "heavy"
    THEN IF InPile(type, s, i)
         THEN PilePoint(count, s, i)
         ELSE getConePoint(treeHeight, treeBase, (Rand(s, i, 18) * count * 6) \div (RndDen * 10),
                           count, Jitter(Rand(s, i, 6)))
    ELSE getConePoint(treeHeight, treeBase, i, count, Jitter(Rand(s, i, 0)))

\* a ring point that mirrors the angle instead of keeping it
FloorRingMirrored(tree, count, s, i) ==
    LET r == ((treeBase + 10) * GeoOne * count) \div 10 + (Rand(s, i, 7) * 2 * GeoOne * count) \div RndDen
        r0 == Radius(tree[1], tree[3])
        cos == IF r0 = 0 THEN DirOne ELSE (tree[1] * DirOne) \div r0
        sin == IF r0 = 0 THEN 0 ELSE (tree[3] * DirOne) \div r0
    IN  <<(cos * r) \div DirOne, (25 * GeoOne * count) \div 100, 0 - (sin * r) \div DirOne>>

\* lines 204-211: a low car is pushed to the ring around the floor
FloorRing(tree, count, s, i) ==
    LET r == ((treeBase + 10) * GeoOne * count) \div 10 + (Rand(s, i, 7) * 2 * GeoOne * count) \div RndDen
        r0 == Radius(tree[1], tree[3])
        cos == IF r0 = 0 THEN DirOne ELSE (tree[1] * DirOne) \div r0
        sin == IF r0 = 0 THEN 0 ELSE (tree[3] * DirOne) \div r0
    IN  <<(cos * r) \div DirOne, (25 * GeoOne * count) \div 100, (sin * r) \div DirOne>>

\* lines 144-211: treePos of entity i (0-based, as in the source)
TreePos(type, count, s, i) ==
    LET tree == TreeBefore(type, count, s, i)
    IN  IF type = "upright" /\ tree[2] < 2 * GeoOne * count
        THEN FloorRing(tree, count, s, i)
        ELSE tree

\* the classes of line 137
GenTypes == {"foliage", "heavy", "light", "floating", "upright"}

\* the largest population generated; the smallest count passed is -1
MaxGenCount == 4

GenCounts == (0 - 1)..MaxGenCount

\* lines 5-15: phi = acos(2v - 1) has the cosine 2v - 1; its sine is rational at
\* the poles and the equator and is taken from the nearest direction of
\* DirTable elsewhere; Math.cbrt(Math.random()) is k / RndDen, the root of the
\* outcome (k / RndDen)^3
getRandomSpherePoint(radius, count, s, i) ==
    LET theta == FullTurn(Rand(s, i, 12))
        v == Rand(s, i, 13)
        cosPhi == IF v = 0 THEN -DirOne ELSE IF 2 * v = RndDen THEN 0
                  ELSE IF 4 * v = RndDen THEN -3 ELSE IF 4 * v = 3 * RndDen THEN 3 ELSE 4
        sinPhi == IF v = 0 THEN 0 ELSE IF 2 * v = RndDen THEN DirOne
                  ELSE IF 4 * v = RndDen \/ 4 * v = 3 * RndDen THEN 4 ELSE 3
        r == (Rand(s, i, 14) * radius * GeoOne * count) \div RndDen
    IN  <<(((r * sinPhi) \div DirOne) * Cos(theta)) \div DirOne,
          (((r * sinPhi) \div DirOne) * SinOf(theta)) \div DirOne + 5 * GeoOne * count,
          (r * cosPhi) \div DirOne>>

\* lines 151-159: tx, ty, tz
TextPos(count, s, i) ==
    <<((2 * Rand(s, i, 15) - RndDen) * 45 * GeoOne * count) \div (2 * RndDen),
      ((2 * Rand(s, i, 16) - RndDen) * 35 * GeoOne * count) \div (2 * RndDen) + 7 * GeoOne * count,
      0 - 4 * GeoOne * count - (Rand(s, i, 17) * 12 * GeoOne * count) \div RndDen>>

\* lines 221-229: what is pushed for entity i; scale in hundredths, speed in tenths
GeneratedItem(type, count, s, i) ==
    [chaosPos |-> getRandomSpherePoint(15, count, s, i),
     treePos |-> TreePos(type, count, s, i),
     textPos |-> TextPos(count, s, i),
     scale   |-> (Rand(s, i, 11) * 50) \div RndDen + 50,
     speed   |-> SpeedOf(type)]

\* lines 137-232: `for (let i = 0; i < count; i++)` pushes nothing for count <= 0
GenerateData(count, type, s) == [n \in 1..count |-> GeneratedItem(type, count, s, n - 1)]

\* a caller builds a population; `piled` notes which entities took the pile branch
\* and `cone` the value of `tree` before the adjustment of lines 204-211
CallGenerateInstanceData ==
    /\ \E count \in GenCounts, type \in GenTypes, s \in 0..(NumStreams - 1) :
          call' = [fn |-> "generateInstanceData", outcome |-> "returned",
                   count |-> count, type |-> type,
                   result |-> GenerateData(count, type, s),
                   piled |-> {n \in 1..count : InPile(type, s, n - 1)},
                   cone |-> [n \in 1..count |-> TreeBefore(type, count, s, n - 1)]]
    /\ UNCHANGED <<uiVars, engineVars, trail, textEnv, cachedTextPoints, scn>>

NextGen == CallGenerateInstanceData

SpecGen == Init /\ [][NextGen]_vars

----------------------------------------------------------------------------
(* MathUtils.ts, the text points, in units of 1 / TextOne world units.      *)
TextOne == 800

\* lines 51-52: width = height of the canvas, scaled down from 2048
CanvasSize == 4

\* line 85
SampleStep == 2

\* what fillText leaves on the canvas depends on the fonts of the host: raster 0
\* is all black, the last raster is all white
NumRasters == 4

NumTextStreams == 3

HostStates == [document : BOOLEAN, context : BOOLEAN, raster : 0..(NumRasters - 1)]

SamplesPerRow == (CanvasSize + SampleStep - 1) \div SampleStep

NumSamples == SamplesPerRow * SamplesPerRow

\* line 79-80: imageData.data, the red channel of the n-th sampled pixel of raster k
Red(k, n) ==
    IF k = 0 THEN 0
    ELSE IF k = NumRasters - 1 THEN 255
    ELSE <<255, 128, 0, 129>>[((n * k + n \div 2) % 4) + 1]

\* lines 97-101
PointAt(x, y) ==
    <<((2 * x - CanvasSize) * TextOne) \div 200,
      ((CanvasSize - 2 * y) * TextOne) \div 200 + 7 * TextOne,
      0>>

\* lines 91-104: the scan, row by row, from the n-th sample on
RECURSIVE ScanFrom(_, _)
ScanFrom(k, n) ==
    IF n >= NumSamples THEN <<>>
    ELSE LET x == (n % SamplesPerRow) * SampleStep
             y == (n \div SamplesPerRow) * SampleStep
         IN  IF Red(k, n) > 128
             THEN <<PointAt(x, y)>> \o ScanFrom(k, n + 1)
             ELSE ScanFrom(k, n + 1)

Swap(points, a, b) ==
    [n \in 1..Len(points) |-> IF n = a THEN points[b] ELSE IF n = b THEN points[a] ELSE points[n]]

\* an iteration that never leaves an element where it is: j = floor(random * i)
ShuffleStepInPlaceless(points, i, draw) == Swap(points, i + 1, ((draw * i) \div RndDen) + 1)

\* lines 107-108: the iteration of index i (0-based), draw being the outcome of
\* Math.random()
ShuffleStep(points, i, draw) == Swap(points, i + 1, ((draw * (i + 1)) \div RndDen) + 1)

\* lines 106-109: the loop from index i down to 1, draws[i] being the outcome
\* of Math.random() in the iteration of index i
RECURSIVE FisherYates(_, _, _)
FisherYates(points, i, draws) ==
    IF i < 1 THEN points
    ELSE FisherYates(ShuffleStep(points, i, draws[i]), i - 1, draws)

\* lines 106-109 with the draws of random stream s
Shuffle(points, i, s) == FisherYates(points, i, [n \in 1..i |-> Rand(s, n, 8)])

\* a variant that caches the empty set when the host gives no 2D context
generateTextPointsCachingFailure(env, cache, s) ==
    IF ~env.document THEN [result |-> <<>>, cache |-> cache, rasterized |-> FALSE]
    ELSE IF cache # Null THEN [result |-> cache, cache |-> cache, rasterized |-> FALSE]
    ELSE IF ~env.context THEN [result |-> <<>>, cache |-> <<>>, rasterized |-> FALSE]
    ELSE LET scanned == ScanFrom(env.raster, 0)
             points == Shuffle(scanned, Len(scanned) - 1, s)
         IN  [result |-> points, cache |-> points, rasterized |-> TRUE]

\* lines 46-114: the result, the cache afterwards and whether the canvas was scanned
generateTextPoints(env, cache, s) ==
    IF ~env.document THEN [result |-> <<>>, cache |-> cache, rasterized |-> FALSE]
    ELSE IF cache # Null THEN [result |-> cache, cache |-> cache, rasterized |-> FALSE]
    ELSE IF ~env.context THEN [result |-> <<>>, cache |-> cache, rasterized |-> FALSE]
    ELSE LET scanned == ScanFrom(env.raster, 0)
             points == Shuffle(scanned, Len(scanned) - 1, s)
         IN  [result |-> points, cache |-> points, rasterized |-> TRUE]

\* a variant whose fallback point carries the depth jitter of line 122
getRandomTextPointJittered(env, cache, s) ==
    LET got == generateTextPoints(env, cache, s)
        points == got.result
        jitter == ((2 * Rand(s, 0, 10) - RndDen) * TextOne) \div (2 * RndDen)
    IN  IF Len(points) = 0
        THEN [result |-> <<0, 10 * TextOne, jitter>>, cache |-> got.cache, points |-> points]
        ELSE LET pt == points[((Rand(s, 0, 9) * Len(points)) \div RndDen) + 1]
             IN  [result |-> <<pt[1], pt[2], pt[3] + jitter>>, cache |-> got.cache, points |-> points]

\* line 119
DefaultPoint == <<0, 10 * TextOne, 0>>

\* a variant whose depth jitter is four times as wide
getRandomTextPointDeep(env, cache, s) ==
    LET got == generateTextPoints(env, cache, s)
        points == got.result
    IN  IF Len(points) = 0
        THEN [result |-> DefaultPoint, cache |-> got.cache, points |-> points]
        ELSE LET pt == points[((Rand(s, 0, 9) * Len(points)) \div RndDen) + 1]
                 jitter == ((2 * Rand(s, 0, 10) - RndDen) * 4 * TextOne) \div (2 * RndDen)
             IN  [result |-> <<pt[1], pt[2], pt[3] + jitter>>, cache |-> got.cache, points |-> points]

\* lines 117-123
getRandomTextPoint(env, cache, s) ==
    LET got == generateTextPoints(env, cache, s)
        points == got.result
    IN  IF Len(points) = 0
        THEN [result |-> DefaultPoint, cache |-> got.cache, points |-> points]
        ELSE LET pt == points[((Rand(s, 0, 9) * Len(points)) \div RndDen) + 1]
                 jitter == ((2 * Rand(s, 0, 10) - RndDen) * TextOne) \div (2 * RndDen)
             IN  [result |-> <<pt[1], pt[2], pt[3] + jitter>>, cache |-> got.cache, points |-> points]

\* the host gains or loses its document, its 2D context, or renders the text differently
HostChanges ==
    /\ \E env \in HostStates : env # textEnv /\ textEnv' = env
    /\ UNCHANGED <<uiVars, engineVars, trail, cachedTextPoints, call, scn>>

CallGenerateTextPoints ==
    /\ \E s \in 0..(NumTextStreams - 1) :
          LET got == generateTextPoints(textEnv, cachedTextPoints, s)
          IN  /\ cachedTextPoints' = got.cache
              /\ call' = [fn |-> "generateTextPoints", outcome |-> "returned", result |-> got.result,
                          rasterized |-> got.rasterized, before |-> cachedTextPoints]
    /\ UNCHANGED <<uiVars, engineVars, trail, textEnv, scn>>

CallGetRandomTextPoint ==
    /\ \E s \in 0..(NumTextStreams - 1) :
          LET got == getRandomTextPoint(textEnv, cachedTextPoints, s)
          IN  /\ cachedTextPoints' = got.cache
              /\ call' = [fn |-> "getRandomTextPoint", outcome |-> "returned", result |-> got.result,
                          points |-> got.points, before |-> cachedTextPoints]
    /\ UNCHANGED <<uiVars, engineVars, trail, textEnv, scn>>

NextText == HostChanges \/ CallGenerateTextPoints \/ CallGetRandomTextPoint

SpecText == Init /\ [][NextText]_vars

\* the host can rasterize: it has a document and hands out a 2D context
Rasterizable(env) == env.document /\ env.context

\* C15: when the point set that getRandomTextPoint obtains is empty, the call
\* returns normally and its result is exactly the default point [0, 10, 0],
\* without jitter
C15_EmptyPointsGiveDefault ==
    (call.fn = "getRandomTextPoint" /\ call.points = <<>>)
        => (call.outcome = "returned" /\ call.result = <<0, 10 * TextOne, 0>>)

\* the fallback was taken on a cached empty set and the default point came back
C15_Witness ==
    /\ call.fn = "getRandomTextPoint"
    /\ call.points = <<>>
    /\ cachedTextPoints = <<>>
    /\ call.result = <<0, 10 * TextOne, 0>>

\* C16: a call of generateTextPoints that finds nothing cached and a host that
\* cannot rasterize (no document, or no 2D context) returns the empty set
\* normally and leaves the cache as it was; a call that finds nothing cached
\* and a host that can rasterize scans the canvas and caches what it returns
C16_UnavailableLeavesCacheAlone ==
    [][(cachedTextPoints = Null /\ CallGenerateTextPoints)
          => IF Rasterizable(textEnv)
             THEN call'.rasterized /\ cachedTextPoints' = call'.result /\ cachedTextPoints' # Null
             ELSE /\ call'.result = <<>>
                  /\ call'.outcome = "returned"
                  /\ cachedTextPoints' = Null]_vars

\* a call without a 2D context has returned the empty set and nothing is cached
C16_Witness ==
    /\ call.fn = "generateTextPoints"
    /\ call.result = <<>>
    /\ call.before = Null
    /\ cachedTextPoints = Null
    /\ textEnv.document
    /\ ~textEnv.context

\* C17: once the point set is cached, every call of generateTextPoints, in any
\* state of the host, returns the cached array and neither scans the canvas nor
\* touches the cache
C17_CachedArrayReturnedAlways ==
    [][(cachedTextPoints # Null /\ CallGenerateTextPoints)
          => /\ call'.result = cachedTextPoints
             /\ ~call'.rasterized
             /\ cachedTextPoints' = cachedTextPoints]_vars

----------------------------------------------------------------------------
(* Properties of the generated populations *)

Generated == call.fn = "generateInstanceData"

\* one world unit of the population held by `call`
WorldOne == GeoOne * call.count

\* 0 <= y <= height and sqrt(x^2 + z^2) <= baseRadius * (1 - y / height)
InCone(p) ==
    /\ 0 <= p[2]
    /\ 10 * p[2] <= treeHeight * WorldOne
    /\ Radius(p[1], p[3]) * treeHeight * 10 <= treeBase * (treeHeight * WorldOne - 10 * p[2])

\* C18: a population is never returned for a count <= 0: the call fails
C18_InvalidCountRejected ==
    (Generated /\ call.count <= 0) => call.outcome = "threw"

\* C19 as stated: the Assembled target of every entity of every class lies
\* inside the cone
C19_EveryTargetInsideCone ==
    Generated => \A n \in 1..Len(call.result) : InCone(call.result[n].treePos)

\* C19: the Assembled target lies inside the cone for every entity placed by the
\* cone formula: all of foliage, light and floating, the heavy entities outside
\* the pile and the upright entities at height 2 or more; an upright entity
\* below height 2 sits at y = 0.25 on the ring of radius in [treeBase + 1,
\* treeBase + 3), and a heavy entity of the pile within treeBase + 0.5 of the axis
C19_ConePlacedTargetsInsideCone ==
    Generated => \A n \in 1..Len(call.result) :
        LET p == call.result[n].treePos
            r == Radius(p[1], p[3])
        IN  IF n \in call.piled
            THEN 10 * r <= (treeBase + 5) * WorldOne
            ELSE IF call.type = "upright" /\ p[2] < 2 * WorldOne
            THEN /\ 100 * p[2] = 25 * WorldOne
                 /\ (treeBase + 10) * WorldOne <= 10 * r
                 /\ 10 * r < (treeBase + 30) * WorldOne
            ELSE InCone(p)

\* populations of every class with entities on the cone, and both exceptions
C19_Witness ==
    /\ Generated
    /\ call.count = MaxGenCount
    /\ \/ call.type \in {"foliage", "light", "floating"}
       \/ call.type = "heavy" /\ \E n \in 1..call.count : n \notin call.piled
       \/ call.type = "upright" /\ \E n \in 1..call.count : call.result[n].treePos[2] >= 2 * WorldOne
    /\ \A n \in 1..call.count :
          (n \notin call.piled /\ call.result[n].treePos[2] >= 2 * WorldOne) => InCone(call.result[n].treePos)
    /\ \E n \in 1..call.count : call.result[n].treePos[2] > 0

\* the envelope 3.5 * (1 - r / maxRadius) at radius r, times 10 * (treeBase + 5)
Envelope(r) == 35 * ((treeBase + 5) * WorldOne - 10 * r)

\* C20 as stated: a pile point has r <= maxRadius and a height of at most the
\* envelope 3.5 * (1 - r / maxRadius)
C20_PileUnderEnvelope ==
    Generated => \A n \in call.piled :
        LET p == call.result[n].treePos
            r == Radius(p[1], p[3])
        IN  /\ 10 * r <= (treeBase + 5) * WorldOne
            /\ 10 * (treeBase + 5) * p[2] <= Envelope(r)

\* C20: a pile point has r <= maxRadius and a height in
\* [0.1, max(0.5, 3.5 * (1 - r / maxRadius)) + 0.1): the envelope is floored at
\* 0.5 and the height is lifted by 0.1
C20_PileUnderFlooredEnvelope ==
    Generated => \A n \in call.piled :
        LET p == call.result[n].treePos
            r == Radius(p[1], p[3])
        IN  /\ 10 * r <= (treeBase + 5) * WorldOne
            /\ 10 * p[2] >= WorldOne
            /\ 10 * (treeBase + 5) * p[2]
                  < Max(5 * (treeBase + 5) * WorldOne, Envelope(r)) + (treeBase + 5) * WorldOne

\* a pile point near the rim, where the floor of the envelope decides, and one
\* near the centre, where the envelope decides
C20_Witness ==
    /\ Generated
    /\ \E n \in call.piled :
          LET p == call.result[n].treePos
          IN  Envelope(Radius(p[1], p[3])) < 5 * (treeBase + 5) * WorldOne /\ 10 * p[2] > WorldOne
    /\ \E n \in call.piled :
          LET p == call.result[n].treePos
          IN  Envelope(Radius(p[1], p[3])) > 5 * (treeBase + 5) * WorldOne /\ 10 * p[2] > WorldOne

----------------------------------------------------------------------------
\* the fields of InstanceData that hold targets and parameters
TargetFields == {"chaosPos", "treePos", "textPos", "rotation", "scale", "speed", "spinSpeed"}

----------------------------------------------------------------------------
(* One population of ScenarioCount entities under useSyncedAnimation, with   *)
(* the mode held at FORMED and frames of 1/60 s.  Positions are in units of  *)
(* 1 / FineOne world units, fine enough for a tolerance of a thousandth.     *)
ScenarioCount == 4

ScenarioFrames == 1000

\* frames per unit of the clock (a third of a second at 60 frames per second)
FramesPerTick == 20

FineScale == 10

FineOne == GeoOne * ScenarioCount * FineScale

Fine(p) == [k \in 1..3 |-> p[k] * FineScale]

\* Ornaments.tsx lines 307-340 pass the class of the system to generateInstanceData
ScenarioItem(sys, s, i) ==
    LET item == GeneratedItem(SystemType(sys), ScenarioCount, s, i)
    IN  [chaosPos |-> Fine(item.chaosPos), treePos |-> Fine(item.treePos), textPos |-> Fine(item.textPos),
         scale |-> item.scale, speed |-> item.speed, currentPos |-> Undefined]

NewScenario(sys, s) ==
    [sys |-> sys, n |-> 0,
     items |-> [i \in 1..ScenarioCount |-> ScenarioItem(sys, s, i - 1)],
     out |-> [i \in 1..ScenarioCount |-> [position |-> Identity.position, scale |-> Identity.scale]]]

\* the denominator of the factor of a frame of 1/60 s
FineDen == 6000

\* a factor that barely moves an entity
FineAlphaSlow(speed) == 1

\* line 92 with delta = 1/60: min(delta * speed * 1.5, 1), speed in tenths
FineAlpha(speed) == Min(15 * speed, FineDen)

\* lines 84-93 at the fine resolution
FineMove(item, m) ==
    LET from == SeedCurrentPos(item)
        to == SelectTarget(item, m)
    IN  [item EXCEPT !.currentPos =
            [k \in 1..3 |-> from[k] + RoundDiv((to[k] - from[k]) * FineAlpha(item.speed), FineDen)]]

\* lines 75-128: one frame of 1/60 s on the population under test
ScenarioFrame ==
    /\ scn.sys \in Systems
    /\ scn.n < ScenarioFrames
    /\ LET m == rendered.mode
           t == (scn.n + 1) \div FramesPerTick
           moved == [i \in 1..Len(scn.items) |-> FineMove(scn.items[i], ModeSeenBy(i, m))]
       IN  scn' = [scn EXCEPT !.n = @ + 1,
                              !.items = moved,
                              !.out = [i \in 1..Len(scn.items) |->
                                          [position |-> moved[i].currentPos,
                                           scale |-> EmittedScale(moved[i], scn.sys, m, t, i - 1)]]]
    /\ UNCHANGED <<uiVars, engineVars, trail, textEnv, cachedTextPoints, call>>

\* the mode is forced to FORMED before the first frame
InitScenario ==
    /\ InitEngine
    /\ mode = "FORMED"
    /\ isOpening = FALSE
    /\ isFading = FALSE
    /\ rendered = Snapshot("FORMED", FALSE)
    /\ dblEnv = Snapshot("GIFT", FALSE)
    /\ timers = <<>>
    /\ opens = 0
    /\ chaosWrites = 0
    /\ trail = <<>>
    /\ textEnv = [document |-> TRUE, context |-> TRUE, raster |-> 1]
    /\ cachedTextPoints = Null
    /\ call = [fn |-> "none"]
    /\ \E sys \in Systems, s \in 0..(NumStreams - 1) : scn = NewScenario(sys, s)

NextScenario == ScenarioFrame

SpecScenario == InitScenario /\ [][NextScenario]_vars

ScenarioDone == scn.sys \in Systems /\ scn.n = ScenarioFrames

\* a thousandth of a world unit
Tolerance == FineOne \div 1000

\* within 1e-3 in Euclidean distance
Within(p, q) ==
    /\ \A k \in 1..3 : Abs(p[k] - q[k]) <= Tolerance
    /\ (p[1] - q[1]) * (p[1] - q[1]) + (p[2] - q[2]) * (p[2] - q[2]) + (p[3] - q[3]) * (p[3] - q[3])
          <= Tolerance * Tolerance

\* C13 as stated: after 1000 frames of 1/60 s in FORMED every entity is within
\* 1e-3 of its Assembled target and the scale written for it equals 1.0
C13_ConvergedWithUnitScale ==
    ScenarioDone => \A i \in 1..ScenarioCount :
        /\ Within(scn.items[i].currentPos, scn.items[i].treePos)
        /\ scn.out[i].position = scn.items[i].currentPos
        /\ scn.out[i].scale = ScaleOne

\* C13: after 1000 frames of 1/60 s in FORMED every entity is within 1e-3 of its
\* Assembled target, and the scale written for it is its base scale times the
\* multiplier of its system times a pulse between 0.95 and 1.05
C13_ConvergedWithPulsedScale ==
    ScenarioDone => \A i \in 1..ScenarioCount :
        /\ Within(scn.items[i].currentPos, scn.items[i].treePos)
        /\ scn.out[i].position = scn.items[i].currentPos
        /\ \E pulse \in (ScaleOne - 5)..(ScaleOne + 5) :
              scn.out[i].scale = RoundDiv(scn.items[i].scale * ScaleMultiplier(scn.sys) * pulse, 10 * ScaleOne)

\* the thousand frames have run on entities that started more than a world
\* unit from their targets, and a written scale differs from 1.0
C13_Witness ==
    /\ ScenarioDone
    /\ \A i \in 1..ScenarioCount :
          /\ Within(scn.items[i].currentPos, scn.items[i].treePos)
          /\ \E k \in 1..3 : Abs(scn.items[i].chaosPos[k] - scn.items[i].treePos[k]) > FineOne
    /\ \E i \in 1..ScenarioCount : scn.out[i].scale # ScaleOne

----------------------------------------------------------------------------
\* the direction of a point about the vertical axis, in fifths
DirectionOf(p) ==
    LET r == Radius(p[1], p[3])
    IN  IF r = 0 THEN <<DirOne, 0>> ELSE <<(p[1] * DirOne) \div r, (p[3] * DirOne) \div r>>

\* C21: an upright entity whose cone-formula height is below 2 sits at y = 0.25
\* on the ring of radius in [treeBase + 1, treeBase + 3) at the angle of its
\* cone point; one whose cone-formula height is at least 2 keeps its cone
\* point; no upright entity has a target with 0.25 < y < 2
C21_LowUprightOnFloorRing ==
    (Generated /\ call.type = "upright") => \A n \in 1..Len(call.result) :
        LET p == call.result[n].treePos
            tree == call.cone[n]
            r == Radius(p[1], p[3])
        IN  /\ IF tree[2] < 2 * WorldOne
               THEN /\ 100 * p[2] = 25 * WorldOne
                    /\ (treeBase + 10) * WorldOne <= 10 * r
                    /\ 10 * r < (treeBase + 30) * WorldOne
                    /\ DirectionOf(p) = DirectionOf(tree)
               ELSE p = tree
            /\ ~(25 * WorldOne < 100 * p[2] /\ p[2] < 2 * WorldOne)

\* a population of cars with one moved to the ring off the x axis and one left
\* on the cone
C21_Witness ==
    /\ Generated
    /\ call.type = "upright"
    /\ \E n \in 1..Len(call.result) :
          /\ call.cone[n][2] < 2 * WorldOne
          /\ call.cone[n][3] # 0
          /\ call.result[n].treePos # call.cone[n]
    /\ \E n \in 1..Len(call.result) :
          /\ call.cone[n][2] >= 2 * WorldOne
          /\ call.result[n].treePos = call.cone[n]

\* C22: a heavy entity outside the pile sits on the cone at the height of an
\* index strictly below 0.6 * count; every heavy entity, in the pile or not,
\* has a target below 0.6 * treeHeight
C22_HeavyBelowUpperCone ==
    (Generated /\ call.type = "heavy") => \A n \in 1..Len(call.result) :
        LET p == call.result[n].treePos
        IN  /\ 100 * p[2] < 6 * treeHeight * WorldOne
            /\ n \notin call.piled =>
                  \E randomI \in 0..(call.count - 1) :
                      /\ 10 * randomI < 6 * call.count
                      /\ 10 * p[2] = randomI * treeHeight * GeoOne

\* a heavy entity outside the pile sits on the cone above the floor, next to
\* an entity of the pile
C22_Witness ==
    /\ Generated
    /\ call.type = "heavy"
    /\ call.piled # {}
    /\ \E n \in 1..Len(call.result) : n \notin call.piled /\ call.result[n].treePos[2] > 0

----------------------------------------------------------------------------
(* Foliage.tsx lines 111-152: the Glyph targets of the particles, one call   *)
(* of getRandomTextPoint per particle; the first call may fill the cache.    *)
RECURSIVE FoliageTextPositions(_, _, _, _)
FoliageTextPositions(env, cache, s, left) ==
    IF left = 0 THEN <<>>
    ELSE LET got == getRandomTextPoint(env, cache, s)
         IN  <<got>> \o FoliageTextPositions(env, got.cache, s + 3, left - 1)

\* the useMemo of Foliage runs; `drawn` holds per particle the point set it drew from
CallFoliage ==
    /\ \E s \in 0..(NumTextStreams - 1) :
          LET got == FoliageTextPositions(textEnv, cachedTextPoints, s, Count)
          IN  /\ cachedTextPoints' = got[Len(got)].cache
              /\ call' = [fn |-> "Foliage", outcome |-> "returned",
                          textPositions |-> [i \in 1..Len(got) |-> got[i].result],
                          drawn |-> [i \in 1..Len(got) |-> got[i].points]]
    /\ UNCHANGED <<uiVars, engineVars, trail, textEnv, scn>>

\* the populations of a host that rasterizes: ornaments, particles and the text points
NextGlyph == CallGenerateTextPoints \/ CallFoliage \/ CallGenerateInstanceData

SpecGlyph == Init /\ [][NextGlyph]_vars

\* p, in units of 1 / one, is a point of `points` displaced by at most 0.5 in z
DrawnFrom(p, one, points) ==
    \E k \in 1..Len(points) :
        /\ p[1] * TextOne = points[k][1] * one
        /\ p[2] * TextOne = points[k][2] * one
        /\ 2 * Abs(p[3] * TextOne - points[k][3] * one) <= TextOne * one

\* C23 as stated: with a non-empty cache the Glyph target of every entity, a
\* particle or an instanced ornament, is a point of the cache displaced by at
\* most 0.5 in z
C23_EveryGlyphTargetFromCache ==
    (cachedTextPoints # Null /\ cachedTextPoints # <<>>) =>
        /\ call.fn = "Foliage" =>
              \A i \in 1..Len(call.textPositions) : DrawnFrom(call.textPositions[i], TextOne, cachedTextPoints)
        /\ (Generated /\ call.count > 0) =>
              \A n \in 1..Len(call.result) : DrawnFrom(call.result[n].textPos, WorldOne, cachedTextPoints)

\* C23: the Glyph target of a particle of the foliage is a point of the
\* non-empty point set it obtained, displaced by at most 0.5 in z; the Glyph
\* target of an instanced ornament is not taken from the cache but from the box
\* -22.5 <= x < 22.5, -10.5 <= y < 24.5, -16 < z <= -4
C23_FoliageGlyphTargetFromCache ==
    /\ call.fn = "Foliage" =>
          \A i \in 1..Len(call.textPositions) :
              call.drawn[i] # <<>> => DrawnFrom(call.textPositions[i], TextOne, call.drawn[i])
    /\ (Generated /\ call.count > 0) =>
          \A n \in 1..Len(call.result) :
              LET p == call.result[n].textPos
              IN  /\ 0 - 225 * WorldOne <= 10 * p[1] /\ 10 * p[1] < 225 * WorldOne
                  /\ 0 - 105 * WorldOne <= 10 * p[2] /\ 10 * p[2] < 245 * WorldOne
                  /\ 0 - 16 * WorldOne < p[3] /\ p[3] <= 0 - 4 * WorldOne

\* the particles drew from a cache of several points, two of them the same point
C23_Witness ==
    /\ call.fn = "Foliage"
    /\ Len(cachedTextPoints) > 1
    /\ \A i \in 1..Count : call.drawn[i] = cachedTextPoints
    /\ \E i, j \in 1..Count :
          /\ i # j
          /\ call.textPositions[i][1] = call.textPositions[j][1]
          /\ call.textPositions[i][2] = call.textPositions[j][2]

----------------------------------------------------------------------------
\* the axes about which the displayed rotation of an entity changes with the time
ChangingAxes(item, m, upright) ==
    {k \in 1..3 : \E t1, t2 \in 0..(AngleSteps - 1) :
        DisplayRotation(item, m, t1, upright)[k] # DisplayRotation(item, m, t2, upright)[k]}

\* C24: once a frame has written a population, the displayed rotation of an
\* upright entity changes with the time about the Y axis only in FORMED and
\* about all three axes in every other mode, and that of an entity of a free
\* class about all three axes in every mode
C24_TumbleAxesByClass ==
    \A sys \in Systems :
        (mounted /\ ornOps[sys] # <<>>) => \A i \in 1..Len(data[sys]) :
            ChangingAxes(data[sys][i], rendered.mode, IsUpright(sys))
                = IF IsUpright(sys) /\ rendered.mode = "FORMED" THEN {2} ELSE {1, 2, 3}

\* the distance covered in one frame of delta d toward a target dist away
StepToward(dist, d, speed) == LerpTo(0, dist, OrnAlpha(d, speed))

\* C25: the speed of an entity is the value of its class (heavy and upright 0.8,
\* floating 1.2, light 3.0, otherwise 2.0) in every state, and for the same
\* delta and distance a heavy or upright entity moves no farther in a frame
\* than a floating one, and a floating one no farther than a light one
C25_SpeedFixedByClass ==
    /\ SpeedOf("heavy") = 8 /\ SpeedOf("upright") = 8 /\ SpeedOf("floating") = 12
    /\ SpeedOf("light") = 30 /\ SpeedOf("foliage") = 20
    /\ \A sys \in Systems : \A i \in 1..Len(data[sys]) : data[sys][i].speed = SpeedOf(SystemType(sys))
    /\ \A d \in Deltas : \A dist \in 0..(2 * MaxCoord) :
          /\ StepToward(dist, d, SpeedOf("heavy")) <= StepToward(dist, d, SpeedOf("floating"))
          /\ StepToward(dist, d, SpeedOf("upright")) <= StepToward(dist, d, SpeedOf("floating"))
          /\ StepToward(dist, d, SpeedOf("floating")) <= StepToward(dist, d, SpeedOf("light"))

\* frames have moved a gift and a light that keep the speeds of their classes,
\* the gift by less than a light would have moved
C25_Witness ==
    /\ mounted
    /\ clock > 0
    /\ \A sys \in Systems : \A i \in 1..Count :
          /\ data[sys][i].currentPos # Undefined
          /\ data[sys][i].speed = SpeedOf(SystemType(sys))
    /\ \E i \in 1..Count : data["gift"][i].currentPos # data["gift"][i].chaosPos
    /\ \E i \in 1..Count : data["lights"][i].currentPos # data["lights"][i].chaosPos
    /\ \E d \in Deltas : \E dist \in 1..(2 * MaxCoord) :
          StepToward(dist, d, SpeedOf("heavy")) < StepToward(dist, d, SpeedOf("light"))

----------------------------------------------------------------------------
(* Ornaments.tsx lines 68-128 with the shared tempObject made explicit: the  *)
(* loop writes position, rotation and scale of the one scratch object for    *)
(* each entity in turn and copies its matrix to the layers.                  *)

\* a scratch object that keeps the larger of its old and its new scale
WriteScratchSticky(scratch, item, sys, m, t, i) ==
    [scratch EXCEPT !.position = item.currentPos,
                    !.rotation = DisplayRotation(item, m, t, IsUpright(sys)),
                    !.scale = Max(@, EmittedScale(item, sys, m, t, i))]

\* lines 97-122: position.copy, rotation.set, scale.setScalar, updateMatrix
WriteScratch(scratch, item, sys, m, t, i) ==
    [scratch EXCEPT !.position = item.currentPos,
                    !.rotation = DisplayRotation(item, m, t, IsUpright(sys)),
                    !.scale = EmittedScale(item, sys, m, t, i)]

\* lines 79-127: the entities of `order` from its k-th on, starting with `scratch`
RECURSIVE ScratchLoop(_, _, _, _, _, _, _, _)
ScratchLoop(items, order, k, scratch, sys, m, d, t) ==
    IF k > Len(order) THEN <<>>
    ELSE LET i == order[k]
             moved == MoveItem(items[i], ModeSeenBy(i, m), d)
             after == WriteScratch(scratch, moved, sys, ModeSeenBy(i, m), t, i - 1)
         IN  <<[i |-> i, item |-> moved, matrix |-> after]>>
                 \o ScratchLoop(items, order, k + 1, after, sys, m, d, t)

\* what a run of the loop wrote for entity i
WrittenFor(run, i) == CHOOSE w \in {run[k] : k \in 1..Len(run)} : w.i = i

Ascending(n) == [k \in 1..n |-> k]

Descending(n) == [k \in 1..n |-> n + 1 - k]

\* the population with every entity but the i-th replaced by another one
OthersReplaced(items, i) ==
    [j \in 1..Len(items) |-> IF j = i THEN items[i] ELSE InstanceData("floating", j + 1, 1)]

\* C26: what a frame writes for entity i, its currentPos and its transform, is
\* what the loop writes for it from its own data, the mode, the time and the
\* delta, whatever the scratch object held before, in whatever order the
\* entities are processed, and whatever the other entities are or however many
\* follow it; a particle of the foliage moves from its own position to its own
\* target
C26_EntityWrittenFromOwnData ==
    [][\A d \in AllDeltas : (mounted /\ FrameAt(d)) =>
          /\ \A sys \in Systems : \A i \in 1..Len(data[sys]) :
                LET m == rendered.mode
                    t == clock'
                    n == Len(data[sys])
                    Same(run) == /\ WrittenFor(run, i).item = data'[sys][i]
                                 /\ WrittenFor(run, i).matrix = matrices'[sys][1][i]
                IN  /\ Same(ScratchLoop(data[sys], Ascending(n), 1, Identity, sys, m, d, t))
                    /\ Same(ScratchLoop(data[sys], Ascending(n), 1, matrices[sys][1][n], sys, m, d, t))
                    /\ Same(ScratchLoop(data[sys], Descending(n), 1, Identity, sys, m, d, t))
                    /\ Same(ScratchLoop(OthersReplaced(data[sys], i), Ascending(n), 1, Identity, sys, m, d, t))
                    /\ Same(ScratchLoop(SubSeq(data[sys], 1, i), Ascending(i), 1, Identity, sys, m, d, t))
          /\ \A i \in 1..Len(currentPositions) :
                currentPositions'[i] =
                    [k \in 1..3 |-> MathUtilsLerp(currentPositions[i][k], FoliageTarget(i, rendered.mode)[k],
                                                  FoliageLerpFactor(d))]]_vars

\* a frame has written different transforms for two entities of one population
C26_Witness ==
    /\ mounted
    /\ clock > 0
    /\ \E sys \in Systems :
          /\ ornOps[sys] # <<>>
          /\ matrices[sys][1][1].scale # matrices[sys][1][Count].scale
          /\ matrices[sys][1][1].position # matrices[sys][1][Count].position

----------------------------------------------------------------------------
(* Target selection by mode *)

\* the stored target an instanced entity moves toward in mode m
InstancedTarget(item, m) ==
    CASE m = "FORMED" -> item.treePos
      [] m = "TEXT"   -> item.textPos
      [] m \in {"CHAOS", "GIFT"} -> item.chaosPos

\* the stored target a photo card moves toward in mode m
PhotoTarget(card, m) ==
    CASE m = "FORMED" -> card.props.treePos
      [] m \in {"CHAOS", "TEXT", "GIFT"} -> card.props.chaosPos

\* C27: in each frame an instanced entity moves toward its treePos when the
\* mode the frame sees is FORMED, toward its textPos when it is TEXT and toward
\* its chaosPos when it is CHAOS or GIFT (a foliage particle likewise, from its
\* three target arrays); a photo card moves toward its treePos when the mode is
\* FORMED and toward its chaosPos in the three other modes, the float offset
\* added to the height of either
C27_TargetByMode ==
    [][\A d \in AllDeltas : (mounted /\ FrameAt(d)) =>
          LET m == rendered.mode
          IN  /\ \A sys \in Systems : \A i \in 1..Len(data[sys]) :
                    LET item == data[sys][i]
                    IN  data'[sys][i].currentPos =
                            Vector3Lerp(SeedCurrentPos(item), InstancedTarget(item, m),
                                        OrnAlpha(d, item.speed))
              /\ \A i \in 1..Len(currentPositions) :
                    LET target == CASE m = "FORMED" -> foliage.positions[i]
                                    [] m = "TEXT"   -> foliage.textPositions[i]
                                    [] m \in {"CHAOS", "GIFT"} -> foliage.chaosPositions[i]
                    IN  currentPositions'[i] =
                            [k \in 1..3 |-> MathUtilsLerp(currentPositions[i][k], target[k],
                                                          FoliageLerpFactor(d))]
              /\ \A c \in 1..Len(cards) :
                    cards'[c].position =
                        Vector3Lerp(cards[c].position,
                                    [PhotoTarget(cards[c], m) EXCEPT ![2] = @ + FloatY(cards[c], clock')],
                                    PolaroidLerpFactor(d))]_vars

\* a frame of the TEXT mode has left an entity on the way to its text target
\* while a card has stayed off its place on the tree
C27_Witness ==
    /\ mounted
    /\ rendered.mode = "TEXT"
    /\ \E sys \in Systems : \E i \in 1..Len(data[sys]) :
          /\ data[sys][i].currentPos # Undefined
          /\ data[sys][i].currentPos # data[sys][i].chaosPos
          /\ data[sys][i].currentPos # data[sys][i].treePos
          /\ ornOps[sys] # <<>>
          /\ ornOps[sys][1].mode = "TEXT"
    /\ \E c \in 1..Len(cards) : cards[c].position # cards[c].props.treePos

----------------------------------------------------------------------------
(* MathUtils.ts generateTextPoints, lines 105-112: the shuffle on its own,  *)
(* applied to the points extracted from a raster with free random draws     *)

MaxShuffle == 4

Draws == {RndOutcomes[n] : n \in 1..Len(RndOutcomes)}

\* the first n points extracted from raster k
Extracted(k, n) == SubSeq(ScanFrom(k, 0), 1, Min(n, Len(ScanFrom(k, 0))))

\* line 106, loop entry: i = points.length - 1
StartShuffle ==
    /\ \E k \in 0..(NumRasters - 1), n \in 0..MaxShuffle :
          call' = [fn |-> "shuffle", outcome |-> "running", input |-> Extracted(k, n),
                   result |-> Extracted(k, n), i |-> Len(Extracted(k, n)) - 1, draws |-> <<>>]
    /\ UNCHANGED <<uiVars, engineVars, trail, textEnv, cachedTextPoints, scn>>

\* lines 106-109: one iteration, while i > 0
IterateShuffle ==
    /\ call.fn = "shuffle"
    /\ call.i > 0
    /\ \E draw \in Draws :
          call' = [call EXCEPT !.result = ShuffleStep(call.result, call.i, draw),
                               !.i = @ - 1,
                               !.draws = <<draw>> \o @]
    /\ UNCHANGED <<uiVars, engineVars, trail, textEnv, cachedTextPoints, scn>>

\* lines 109-111: the loop is left and the array is stored
FinishShuffle ==
    /\ call.fn = "shuffle"
    /\ call.outcome = "running"
    /\ call.i < 1
    /\ call' = [call EXCEPT !.outcome = "returned"]
    /\ UNCHANGED <<uiVars, engineVars, trail, textEnv, cachedTextPoints, scn>>

NextShuffle == StartShuffle \/ IterateShuffle \/ FinishShuffle

SpecShuffle == Init /\ [][NextShuffle]_vars

Occurrences(points, p) == Cardinality({n \in 1..Len(points) : points[n] = p})

Elements(points) == {points[n] : n \in 1..Len(points)}

\* the rearrangements of a sequence
Rearrangements(points) ==
    {[n \in 1..Len(points) |-> points[f[n]]] : f \in Permutations(1..Len(points))}

\* C28: the shuffle is a permutation: whatever the extracted array and
\* whatever the random choices, the array has the length of the input and holds
\* every point as often as the input does, in every iteration and at the end;
\* the array the loop leaves is the one the choices made determine, and every
\* rearrangement of the input is the result of some sequence of random choices
C28_ShuffleIsPermutation ==
    call.fn = "shuffle" =>
        /\ Len(call.result) = Len(call.input)
        /\ \A p \in Elements(call.input) \cup Elements(call.result) :
              Occurrences(call.result, p) = Occurrences(call.input, p)
        /\ call.outcome = "returned" =>
              /\ call.result = FisherYates(call.input, Len(call.input) - 1, call.draws)
              /\ {FisherYates(call.input, Len(call.input) - 1, draws) :
                     draws \in [1..(Len(call.input) - 1) -> Draws]} = Rearrangements(call.input)

\* an array of at least three points has come out of the shuffle reversed
C28_Witness ==
    /\ call.fn = "shuffle"
    /\ call.outcome = "returned"
    /\ Len(call.input) >= 3
    /\ call.result = [n \in 1..Len(call.input) |-> call.input[Len(call.input) + 1 - n]]

----------------------------------------------------------------------------
(* Ornaments.tsx useSyncedAnimation, lines 70-72 and 122-133, with every    *)
(* layer of a population mounted or not on its own: refs[l] tells whether   *)
(* refs[l].current is set                                                   *)

LayerFrames == 2

\* a callback that enters the loop whether or not the first layer is mounted
SyncedFrameUnguarded(sys, items, layers, refs, m, d, t) ==
    LET run == ScratchLoop(items, Ascending(Len(items)), 1, Identity, sys, m, d, t)
    IN  [items   |-> [i \in 1..Len(items) |-> run[i].item],
         layers  |-> [l \in 1..Len(refs) |->
                        IF refs[l] THEN [i \in 1..Len(items) |-> run[i].matrix] ELSE layers[l]],
         flagged |-> {l \in 1..Len(refs) : refs[l]}]

\* lines 70-133: one callback; the entities after it, the matrices of the
\* layers after it and the layers whose instanceMatrix it flagged
SyncedFrame(sys, items, layers, refs, m, d, t) ==
    IF ~refs[1]
    THEN [items |-> items, layers |-> layers, flagged |-> {}]
    ELSE LET run == ScratchLoop(items, Ascending(Len(items)), 1, Identity, sys, m, d, t)
         IN  [items   |-> [i \in 1..Len(items) |-> run[i].item],
              layers  |-> [l \in 1..Len(refs) |->
                             IF refs[l] THEN [i \in 1..Len(items) |-> run[i].matrix] ELSE layers[l]],
              flagged |-> {l \in 1..Len(refs) : refs[l]}]

\* a frame of one population: the first after construction, or the next after
\* the frame before
CallSyncedFrame ==
    /\ \E sys \in Systems, m \in TreeMode, d \in Deltas :
       \E refs \in [1..SystemRefs(sys) -> BOOLEAN] :
          LET continued == call.fn = "useSyncedAnimation" /\ call.sys = sys
              frame  == IF continued THEN call.frame + 1 ELSE 1
              items  == IF continued THEN call.items ELSE data[sys]
              layers == IF continued THEN call.layers ELSE matrices[sys]
              got    == SyncedFrame(sys, items, layers, refs, m, d, frame % AngleSteps)
          IN  /\ frame <= LayerFrames
              /\ call' = [fn |-> "useSyncedAnimation", outcome |-> "returned", sys |-> sys,
                          frame |-> frame, refs |-> refs, itemsBefore |-> items, before |-> layers,
                          items |-> got.items, layers |-> got.layers, flagged |-> got.flagged]
    /\ UNCHANGED <<uiVars, engineVars, trail, textEnv, cachedTextPoints, scn>>

NextLayers == CallSyncedFrame

SpecLayers == Init /\ [][NextLayers]_vars

MountedLayers(refs) == {l \in 1..Len(refs) : refs[l]}

\* C29: after every frame that updates a synced population, all mounted layers
\* of the population hold the same transform for every instance index and
\* every mounted layer is flagged for upload; a frame in which the first layer
\* is not mounted writes nothing: no layer's matrices change, no layer is
\* flagged, no entity moves
C29_MountedLayersInSync ==
    call.fn = "useSyncedAnimation" =>
        IF call.refs[1]
        THEN /\ \A a, b \in MountedLayers(call.refs) : \A i \in 1..Len(call.items) :
                   call.layers[a][i] = call.layers[b][i]
             /\ MountedLayers(call.refs) \subseteq call.flagged
        ELSE /\ call.layers = call.before
             /\ call.flagged = {}
             /\ call.items = call.itemsBefore

\* the car population after a frame in which the chassis and the wheels were
\* mounted and the glass was not: the two hold the same new transforms and are
\* flagged, the glass still holds the transforms of the frame before
C29_Witness ==
    /\ call.fn = "useSyncedAnimation"
    /\ call.sys = "car"
    /\ call.refs = <<TRUE, TRUE, FALSE>>
    /\ call.flagged = {1, 2}
    /\ call.layers[1] = call.layers[2]
    /\ call.layers[1] # call.layers[3]
    /\ call.layers[1] # call.before[1]
    /\ \E i \in 1..Len(call.items) : call.layers[3][i] # Identity

----------------------------------------------------------------------------
(* The gift-opening sequence under interleaved triggers *)

\* C30: in the gift-opening sequence the cover is already fading (isFading is
\* true) in the step that changes the mode from GIFT to CHAOS, and whenever
\* every scheduled timer has fired isOpening and isFading are both false,
\* whatever clicks and double-clicks arrive during the opening
C30_FadeBeforeSwitchAndReset ==
    /\ [][(mode = "GIFT" /\ mode' = "CHAOS") => isFading]_vars
    /\ [](timers = <<>> => (~isOpening /\ ~isFading))

\* two opening sequences were started by interleaved triggers, both have run
\* all their timers, the mode has left GIFT and both flags are down
C30_Witness ==
    /\ opens = 2
    /\ chaosWrites = 2
    /\ timers = <<>>
    /\ mode # "GIFT"
    /\ ~isOpening
    /\ ~isFading

====
